---- MODULE Spec2Model ----
(***************************************************************************)
(* A model of the Rust-checkers rules engine: the board, coordinate and    *)
(* piece data model of board.rs, the move generation, validation and       *)
(* application of game.rs, and the functions lib.rs exports to the host    *)
(* over the engine it keeps behind a lock.                                 *)
(***************************************************************************)
EXTENDS Integers, Sequences, FiniteSets, TLC

(***************************************************************************)
(* Bounds of the model.                                                    *)
(***************************************************************************)
\* Callers submit coordinates in 0..MaxCoord; 8 and above are off the board.
MaxCoord == 8
\* Callers submit moves whose two squares differ by at most MaxStep per axis.
MaxStep == 2
\* move_piece is called only while fewer than MaxMoves moves were applied.
MaxMoves == 3
\* The wing caller plays on the columns 0..MaxCol, up to WingMoves moves.
MaxCol == 3
WingMoves == 9
\* A test writes at most MaxEdits cells of the board before it calls legal_moves.
MaxEdits == 1
\* The exported functions of lib.rs are called by the callers 1..NumCallers.
NumCallers == 2
\* The sequential caller of lib.rs plays on the columns 0..MaxCol, up to
\* LibMoves moves.
LibMoves == 6
\* The concurrent callers of lib.rs apply at most LockMoves moves.
LockMoves == 3
\* The querying caller applies at most QueryMoves moves.
QueryMoves == 2
\* The caller that plays a game to its end applies fewer than EndMoves moves.
EndMoves == 17

(***************************************************************************)
(* board.rs                                                                *)
(***************************************************************************)
White == "White"
Black == "Black"
PieceColor == {White, Black}

\* Option<T>: None is the empty set, Some(v) the singleton of v.
None == {}
Some(v) == {v}
unwrap(o) == CHOOSE v \in o : TRUE

GamePiece_new(color) == [color |-> color, crowned |-> FALSE]

GamePiece_crowned(piece) == [color |-> piece.color, crowned |-> TRUE]

GamePiece == [color : PieceColor, crowned : BOOLEAN]

\* Coordinate(x, y): a tuple struct; c[1] is the x and c[2] the y component.
Coordinate(x, y) == <<x, y>>

on_board(c) == c[1] <= 7 /\ c[2] <= 7

\* Mutant of jump_targets_from: the targets beyond row or column 7 are dropped.
jump_targets_from_on_board(c) ==
  LET x_coord == c[1]
      y_coord == c[2]
  IN  SelectSeq((IF y_coord >= 2 THEN <<Coordinate(x_coord + 2, y_coord - 2)>> ELSE <<>>)
                \o <<Coordinate(x_coord + 2, y_coord + 2)>>
                \o (IF x_coord >= 2 /\ y_coord >= 2
                    THEN <<Coordinate(x_coord - 2, y_coord - 2)>> ELSE <<>>)
                \o (IF x_coord >= 2 THEN <<Coordinate(x_coord - 2, y_coord + 2)>> ELSE <<>>),
                LAMBDA t : t[1] <= 7 /\ t[2] <= 7)

jump_targets_from(c) ==
  LET x_coord == c[1]
      y_coord == c[2]
  IN  (IF y_coord >= 2 THEN <<Coordinate(x_coord + 2, y_coord - 2)>> ELSE <<>>)
      \o <<Coordinate(x_coord + 2, y_coord + 2)>>
      \o (IF x_coord >= 2 /\ y_coord >= 2
          THEN <<Coordinate(x_coord - 2, y_coord - 2)>> ELSE <<>>)
      \o (IF x_coord >= 2 THEN <<Coordinate(x_coord - 2, y_coord + 2)>> ELSE <<>>)

\* Mutant of move_targets_from: the two targets toward smaller y change places.
move_targets_from_reordered(c) ==
  LET x_coord == c[1]
      y_coord == c[2]
  IN  (IF x_coord >= 1 THEN <<Coordinate(x_coord - 1, y_coord + 1)>> ELSE <<>>)
      \o <<Coordinate(x_coord + 1, y_coord + 1)>>
      \o (IF x_coord >= 1 /\ y_coord >= 1
          THEN <<Coordinate(x_coord - 1, y_coord - 1)>> ELSE <<>>)
      \o (IF y_coord >= 1 THEN <<Coordinate(x_coord + 1, y_coord - 1)>> ELSE <<>>)

move_targets_from(c) ==
  LET x_coord == c[1]
      y_coord == c[2]
  IN  (IF x_coord >= 1 THEN <<Coordinate(x_coord - 1, y_coord + 1)>> ELSE <<>>)
      \o <<Coordinate(x_coord + 1, y_coord + 1)>>
      \o (IF y_coord >= 1 THEN <<Coordinate(x_coord + 1, y_coord - 1)>> ELSE <<>>)
      \o (IF x_coord >= 1 /\ y_coord >= 1
          THEN <<Coordinate(x_coord - 1, y_coord - 1)>> ELSE <<>>)

Move_new(from, to) == [from |-> Coordinate(from[1], from[2]),
                       to |-> Coordinate(to[1], to[2])]

(***************************************************************************)
(* game.rs                                                                 *)
(*                                                                         *)
(* The fields of GameEngine are the variables board, current_turn and      *)
(* move_count; result is the value returned by the latest call.  The       *)
(* methods are operators on the record self of the three fields; a         *)
(* "&mut self" method yields the engine after the call.                    *)
(***************************************************************************)
VARIABLES board, current_turn, move_count, result, lock, pc, local

vars == <<board, current_turn, move_count, result, lock, pc, local>>

\* The state of lib.rs around the engine: the lock of GAME_ENGINE and, for
\* each caller of the exported functions, its position and its locals.
statics == <<lock, pc, local>>

Self == [board |-> board, current_turn |-> current_turn, move_count |-> move_count]

Index == 0..7

\* [[None; 8]; 8]
EmptyBoard == [x \in Index |-> [y \in Index |-> None]]

\* for_each over the zipped coordinate lists: one cell written per pair.
RECURSIVE place_pieces(_, _, _, _, _)
place_pieces(b, xs, ys, color, i) ==
  IF i > Len(xs) THEN b
  ELSE place_pieces([b EXCEPT ![xs[i]][ys[i]] = Some(GamePiece_new(color))],
                    xs, ys, color, i + 1)

\* Mutant of initialize_pieces: the Black rows start one column to the right.
initialize_pieces_shifted(self) ==
  LET w == place_pieces(self.board, <<1, 3, 5, 7, 0, 2, 4, 6, 1, 3, 5, 7>>,
                                    <<0, 0, 0, 0, 1, 1, 1, 1, 2, 2, 2, 2>>, White, 1)
  IN  [self EXCEPT !.board =
         place_pieces(w, <<1, 3, 5, 7, 0, 2, 4, 6, 1, 3, 5, 7>>,
                         <<5, 5, 5, 5, 6, 6, 6, 6, 7, 7, 7, 7>>, Black, 1)]

\* Mutant of initialize_pieces: the two colours are exchanged.
initialize_pieces_colors_swapped(self) ==
  LET w == place_pieces(self.board, <<1, 3, 5, 7, 0, 2, 4, 6, 1, 3, 5, 7>>,
                                    <<0, 0, 0, 0, 1, 1, 1, 1, 2, 2, 2, 2>>, Black, 1)
  IN  [self EXCEPT !.board =
         place_pieces(w, <<0, 2, 4, 6, 1, 3, 5, 7, 0, 2, 4, 6>>,
                         <<5, 5, 5, 5, 6, 6, 6, 6, 7, 7, 7, 7>>, White, 1)]

initialize_pieces(self) ==
  LET w == place_pieces(self.board, <<1, 3, 5, 7, 0, 2, 4, 6, 1, 3, 5, 7>>,
                                    <<0, 0, 0, 0, 1, 1, 1, 1, 2, 2, 2, 2>>, White, 1)
  IN  [self EXCEPT !.board =
         place_pieces(w, <<0, 2, 4, 6, 1, 3, 5, 7, 0, 2, 4, 6>>,
                         <<5, 5, 5, 5, 6, 6, 6, 6, 7, 7, 7, 7>>, Black, 1)]

GameEngine_new ==
  initialize_pieces([board |-> EmptyBoard, current_turn |-> Black, move_count |-> 0])

midpiece_coordinate(from_x, from_y, to_x, to_y) ==
  IF to_x = from_x + 2 /\ to_y = from_y + 2
    THEN Some(Coordinate(from_x + 1, from_y + 1))
  ELSE IF from_x >= 2 /\ from_y >= 2 /\ to_x = from_x - 2 /\ to_y = from_y - 2
    THEN Some(Coordinate(from_x - 1, from_y - 1))
  ELSE IF from_x >= 2 /\ to_x = from_x - 2 /\ to_y = from_y + 2
    THEN Some(Coordinate(from_x - 1, from_y + 1))
  ELSE IF from_y >= 2 /\ to_x = from_x + 2 /\ to_y = from_y - 2
    THEN Some(Coordinate(from_x + 1, from_y - 1))
  ELSE None

midpiece(self, from_x, from_y, to_x, to_y) ==
  LET mc == midpiece_coordinate(from_x, from_y, to_x, to_y)
  IN  IF mc # None THEN self.board[unwrap(mc)[1]][unwrap(mc)[2]] ELSE None

\* Mutant of valid_jump: the destination has to be empty.
valid_jump_to_empty(self, moving_piece, from, to) ==
  IF ~on_board(to) \/ ~on_board(from) THEN FALSE
  ELSE LET mp == midpiece(self, from[1], from[2], to[1], to[2])
       IN  /\ mp # None /\ unwrap(mp).color # moving_piece.color
           /\ self.board[to[1]][to[2]] = None

valid_jump(self, moving_piece, from, to) ==
  IF ~on_board(to) \/ ~on_board(from) THEN FALSE
  ELSE LET mp == midpiece(self, from[1], from[2], to[1], to[2])
       IN  mp # None /\ unwrap(mp).color # moving_piece.color

valid_move(self, moving_piece, from, to) ==
  IF ~on_board(to) \/ ~on_board(from) THEN FALSE
  ELSE IF self.board[to[1]][to[2]] # None THEN FALSE
  ELSE LET to_y == to[2]
           from_y == from[2]
       IN  \/ (to_y > from_y /\ moving_piece.color = White)
           \/ (to_y < from_y /\ moving_piece.color = Black)
           \/ (to_y > from_y /\ moving_piece.color = Black /\ moving_piece.crowned)
           \/ (to_y < from_y /\ moving_piece.color = White /\ moving_piece.crowned)

\* .map(|coord| Move { from: loc, to: coord }).collect()
moves_to(loc, targets) ==
  [i \in 1..Len(targets) |-> [from |-> loc, to |-> targets[i]]]

\* Mutant of valid_moves_from: a piece that can jump has to jump.
valid_moves_from_forced_jump(self, loc) ==
  IF self.board[loc[1]][loc[2]] # None
  THEN LET piece == unwrap(self.board[loc[1]][loc[2]])
           jumps == SelectSeq(jump_targets_from(loc),
                              LAMBDA coord : valid_jump(self, piece, loc, coord))
           moves == SelectSeq(move_targets_from(loc),
                              LAMBDA coord : valid_move(self, piece, loc, coord))
       IN  IF jumps # <<>> THEN moves_to(loc, jumps) ELSE moves_to(loc, moves)
  ELSE <<>>

valid_moves_from(self, loc) ==
  IF self.board[loc[1]][loc[2]] # None
  THEN LET piece == unwrap(self.board[loc[1]][loc[2]])
           jumps == SelectSeq(jump_targets_from(loc),
                              LAMBDA coord : valid_jump(self, piece, loc, coord))
           moves == SelectSeq(move_targets_from(loc),
                              LAMBDA coord : valid_move(self, piece, loc, coord))
       IN  moves_to(loc, jumps) \o moves_to(loc, moves)
  ELSE <<>>

\* Mutant of legal_moves_scan: the row is the outer index and the column the
\* inner one.
RECURSIVE legal_moves_scan_by_row(_, _, _)
legal_moves_scan_by_row(self, col, row) ==
  IF row >= 8 THEN <<>>
  ELSE IF col >= 8 THEN legal_moves_scan_by_row(self, 0, row + 1)
  ELSE (IF /\ self.board[col][row] # None
           /\ unwrap(self.board[col][row]).color = self.current_turn
        THEN valid_moves_from(self, Coordinate(col, row))
        ELSE <<>>)
       \o legal_moves_scan_by_row(self, col + 1, row)

\* The loops "for col in 0..8 { for row in 0..8 {" from square (col, row)
\* on: col is the outer index and row the inner one.
RECURSIVE legal_moves_scan(_, _, _)
legal_moves_scan(self, col, row) ==
  IF col >= 8 THEN <<>>
  ELSE IF row >= 8 THEN legal_moves_scan(self, col + 1, 0)
  ELSE (IF /\ self.board[col][row] # None
           /\ unwrap(self.board[col][row]).color = self.current_turn
        THEN valid_moves_from(self, Coordinate(col, row))
        ELSE <<>>)
       \o legal_moves_scan(self, col, row + 1)

\* Mutant of legal_moves: the moves of both colours are offered.
legal_moves_both(self) ==
  legal_moves_scan(self, 0, 0)
    \o legal_moves_scan([self EXCEPT !.current_turn =
                           IF self.current_turn = Black THEN White ELSE Black], 0, 0)

legal_moves(self) == legal_moves_scan(self, 0, 0)

\* Mutant of contains: only the source square of the move is compared.
contains_from(s, e) == \E i \in 1..Len(s) : s[i].from = e.from

\* Vec::contains
contains(s, e) == \E i \in 1..Len(s) : s[i] = e

\* Mutant of should_crown: the two far rows are exchanged.
should_crown_rows_swapped(piece, coord) ==
  \/ (coord[2] = 7 /\ piece.color = Black)
  \/ (coord[2] = 0 /\ piece.color = White)

should_crown(piece, coord) ==
  \/ (coord[2] = 0 /\ piece.color = Black)
  \/ (coord[2] = 7 /\ piece.color = White)

\* Mutant of crown_piece: the piece is left as it is.
crown_piece_skipped(self, coord) == self

\* The engine after crown_piece (move_piece ignores the bool it returns).
crown_piece(self, coord) ==
  IF self.board[coord[1]][coord[2]] # None
  THEN [self EXCEPT !.board[coord[1]][coord[2]] =
          Some(GamePiece_crowned(unwrap(self.board[coord[1]][coord[2]])))]
  ELSE self

\* Mutant of advance_turn: the move is not counted.
advance_turn_uncounted(self) ==
  [self EXCEPT !.current_turn = IF self.current_turn = Black THEN White ELSE Black]

\* Mutant of advance_turn: the turn is handed to White whoever moved.
advance_turn_to_white(self) ==
  [self EXCEPT !.current_turn = White, !.move_count = self.move_count + 1]

advance_turn(self) ==
  [self EXCEPT !.current_turn = IF self.current_turn = Black THEN White ELSE Black,
               !.move_count = self.move_count + 1]

\* Result<MoveResult, ()>
Ok(move_result) == [op |-> "move_piece", ok |-> TRUE,
                    move_made |-> move_result.move_made,
                    crowned |-> move_result.crowned]
Err == [op |-> "move_piece", ok |-> FALSE]

\* Mutant of move_piece: the moving piece also stays on its source square.
move_piece_keeps_source(self, legal, move_desired) ==
  IF ~contains(legal, move_desired)
  THEN [self |-> self, ret |-> Err]
  ELSE LET from_x == move_desired.from[1]
           from_y == move_desired.from[2]
           to_x == move_desired.to[1]
           to_y == move_desired.to[2]
           piece == unwrap(self.board[from_x][from_y])
           mc == midpiece_coordinate(from_x, from_y, to_x, to_y)
           s1 == IF mc # None
                 THEN [self EXCEPT !.board[unwrap(mc)[1]][unwrap(mc)[2]] = None]
                 ELSE self
           s2 == [s1 EXCEPT !.board[to_x][to_y] = Some(piece)]
           crowned == should_crown(piece, move_desired.to)
           s4 == IF crowned THEN crown_piece(s2, move_desired.to) ELSE s2
       IN  [self |-> advance_turn(s4),
            ret |-> Ok([move_made |-> move_desired, crowned |-> crowned])]

\* Mutant of move_piece: a rejected move passes the turn.
move_piece_rejection_passes(self, legal, move_desired) ==
  IF ~contains(legal, move_desired)
  THEN [self |-> advance_turn(self), ret |-> Err]
  ELSE LET from_x == move_desired.from[1]
           from_y == move_desired.from[2]
           to_x == move_desired.to[1]
           to_y == move_desired.to[2]
           piece == unwrap(self.board[from_x][from_y])
           mc == midpiece_coordinate(from_x, from_y, to_x, to_y)
           s1 == IF mc # None
                 THEN [self EXCEPT !.board[unwrap(mc)[1]][unwrap(mc)[2]] = None]
                 ELSE self
           s2 == [s1 EXCEPT !.board[to_x][to_y] = Some(piece)]
           s3 == [s2 EXCEPT !.board[from_x][from_y] = None]
           crowned == should_crown(piece, move_desired.to)
           s4 == IF crowned THEN crown_piece(s3, move_desired.to) ELSE s3
       IN  [self |-> advance_turn(s4),
            ret |-> Ok([move_made |-> move_desired, crowned |-> crowned])]

\* Mutant of move_piece: the jumped piece is left on the board.
move_piece_keeps_jumped(self, legal, move_desired) ==
  IF ~contains(legal, move_desired)
  THEN [self |-> self, ret |-> Err]
  ELSE LET from_x == move_desired.from[1]
           from_y == move_desired.from[2]
           to_x == move_desired.to[1]
           to_y == move_desired.to[2]
           piece == unwrap(self.board[from_x][from_y])
           s2 == [self EXCEPT !.board[to_x][to_y] = Some(piece)]
           s3 == [s2 EXCEPT !.board[from_x][from_y] = None]
           crowned == should_crown(piece, move_desired.to)
           s4 == IF crowned THEN crown_piece(s3, move_desired.to) ELSE s3
       IN  [self |-> advance_turn(s4),
            ret |-> Ok([move_made |-> move_desired, crowned |-> crowned])]

\* move_piece: the engine after the call and the value returned.  legal is
\* the list that line 59 computes, self.legal_moves(); the callers below
\* evaluate it once per state and pass it in.
move_piece(self, legal, move_desired) ==
  IF ~contains(legal, move_desired)
  THEN [self |-> self, ret |-> Err]
  ELSE LET from_x == move_desired.from[1]
           from_y == move_desired.from[2]
           to_x == move_desired.to[1]
           to_y == move_desired.to[2]
           piece == unwrap(self.board[from_x][from_y])
           mc == midpiece_coordinate(from_x, from_y, to_x, to_y)
           s1 == IF mc # None
                 THEN [self EXCEPT !.board[unwrap(mc)[1]][unwrap(mc)[2]] = None]
                 ELSE self
           s2 == [s1 EXCEPT !.board[to_x][to_y] = Some(piece)]
           s3 == [s2 EXCEPT !.board[from_x][from_y] = None]
           crowned == should_crown(piece, move_desired.to)
           s4 == IF crowned THEN crown_piece(s3, move_desired.to) ELSE s3
       IN  [self |-> advance_turn(s4),
            ret |-> Ok([move_made |-> move_desired, crowned |-> crowned])]

(***************************************************************************)
(* The callers.                                                            *)
(***************************************************************************)
Dist(a, b) == IF a >= b THEN a - b ELSE b - a

\* The moves a caller may submit.
MoveInputs ==
  {Move_new(<<q[1], q[2]>>, <<q[3], q[4]>>) :
     q \in {p \in (0..MaxCoord) \X (0..MaxCoord) \X (0..MaxCoord) \X (0..MaxCoord) :
              Dist(p[1], p[3]) <= MaxStep /\ Dist(p[2], p[4]) <= MaxStep}}

\* The moves of a caller that plays on the columns 0..MaxCol only.
WingInputs == {m \in MoveInputs : m.from[1] <= MaxCol /\ m.to[1] <= MaxCol}

\* lazy_static: the lock is free and no exported function is running.
Callers == 1..NumCallers

StaticsInit ==
  /\ lock = [writer |-> None, readers |-> {}]
  /\ pc = [t \in Callers |-> "idle"]
  /\ local = [t \in Callers |-> <<>>]

Init ==
  /\ board = GameEngine_new.board
  /\ current_turn = GameEngine_new.current_turn
  /\ move_count = GameEngine_new.move_count
  /\ result = [op |-> "new"]
  /\ StaticsInit

\* A call of move_piece with a move of the set inputs.
Call(inputs) ==
  \E legal \in {legal_moves(Self)} :
    \E move_desired \in inputs :
      \E r \in {move_piece(Self, legal, move_desired)} :
        /\ board' = r.self.board
        /\ current_turn' = r.self.current_turn
        /\ move_count' = r.self.move_count
        /\ result' = r.ret
        /\ UNCHANGED statics

MovePiece ==
  /\ move_count < MaxMoves
  /\ Call(MoveInputs)

Next == MovePiece

Spec == Init /\ [][Next]_vars

MovePieceWing ==
  /\ move_count < WingMoves
  /\ Call(WingInputs)

NextWing == MovePieceWing

SpecWing == Init /\ [][NextWing]_vars

\* A caller that knows the moves of one game, in which White takes every
\* Black piece in sixteen moves, and submits them in any order.
EndInputs ==
  {Move_new(<<q[1], q[2]>>, <<q[3], q[4]>>) : q \in {
   <<2, 5, 1, 4>>, <<1, 2, 2, 3>>, <<4, 5, 5, 4>>, <<2, 3, 0, 5>>,
   <<5, 4, 6, 3>>, <<0, 5, 2, 7>>, <<6, 5, 7, 4>>, <<5, 2, 7, 4>>,
   <<7, 6, 6, 5>>, <<7, 4, 5, 6>>, <<6, 7, 4, 5>>, <<2, 7, 4, 5>>,
   <<4, 7, 3, 6>>, <<4, 5, 2, 7>>, <<0, 7, 1, 6>>, <<2, 7, 0, 5>>}}

MovePieceEnd ==
  /\ move_count < EndMoves
  /\ Call(EndInputs)

NextEnd == MovePieceEnd

SpecEnd == Init /\ [][NextEnd]_vars

(***************************************************************************)
(* The unit tests of game.rs call the geometry functions and legal_moves   *)
(* directly, on an engine whose board they wrote to and whose turn they    *)
(* advanced.                                                               *)
(***************************************************************************)
\* The coordinates a caller may pass.
CoordInputs == (0..MaxCoord) \X (0..MaxCoord)

MoveTargetsFrom ==
  /\ \E c \in CoordInputs :
       result' = [op |-> "move_targets_from", coord |-> c,
                  targets |-> move_targets_from(c)]
  /\ UNCHANGED <<board, current_turn, move_count, statics>>

JumpTargetsFrom ==
  /\ \E c \in CoordInputs :
       result' = [op |-> "jump_targets_from", coord |-> c,
                  targets |-> jump_targets_from(c)]
  /\ UNCHANGED <<board, current_turn, move_count, statics>>

NextGeom == MoveTargetsFrom \/ JumpTargetsFrom

SpecGeom == Init /\ [][NextGeom]_vars

\* Option<GamePiece>
CellValues == {None} \cup {Some(p) : p \in GamePiece}

\* The boards a test reaches from the starting layout with at most k writes
\* "engine.board[x][y] = v".
RECURSIVE EditedBoards(_)
EditedBoards(k) ==
  IF k = 0 THEN {GameEngine_new.board}
  ELSE LET prev == EditedBoards(k - 1)
       IN  prev \cup {[b EXCEPT ![c[1]][c[2]] = v] :
                        b \in prev, c \in Index \X Index, v \in CellValues}

\* A test engine: at most MaxEdits cells written, the turn advanced or not.
InitFn ==
  /\ board \in EditedBoards(MaxEdits)
  /\ current_turn \in PieceColor
  /\ move_count = GameEngine_new.move_count
  /\ result = [op |-> "new"]
  /\ StaticsInit

LegalMoves ==
  /\ result' = [op |-> "legal_moves", moves |-> legal_moves(Self)]
  /\ UNCHANGED <<board, current_turn, move_count, statics>>

NextFn == LegalMoves

SpecFn == InitFn /\ [][NextFn]_vars

(***************************************************************************)
(* The cells of the board that move_piece indexes: for each function on    *)
(* its way, the coordinates c for which it evaluates self.board[c.0][c.1]. *)
(***************************************************************************)
\* midpiece: the cell of the midpoint, if there is a midpoint.
midpiece_indexed(from_x, from_y, to_x, to_y) ==
  LET mc == midpiece_coordinate(from_x, from_y, to_x, to_y)
  IN  IF mc # None THEN {unwrap(mc)} ELSE {}

\* valid_jump: nothing before both squares passed on_board.
valid_jump_indexed(from, to) ==
  IF ~on_board(to) \/ ~on_board(from) THEN {}
  ELSE midpiece_indexed(from[1], from[2], to[1], to[2])

\* Mutant of valid_move_indexed: the destination is read without on_board.
valid_move_indexed_unfiltered(from, to) == {to}

\* valid_move: the destination, once both squares passed on_board.
valid_move_indexed(from, to) ==
  IF ~on_board(to) \/ ~on_board(from) THEN {}
  ELSE {to}

\* valid_moves_from: the square itself and what the two filters index.
valid_moves_from_indexed(self, loc) ==
  {loc} \cup
  (IF self.board[loc[1]][loc[2]] # None
   THEN UNION {valid_jump_indexed(loc, to) : to \in {jump_targets_from(loc)[i] :
                                              i \in 1..Len(jump_targets_from(loc))}}
        \cup
        UNION {valid_move_indexed(loc, to) : to \in {move_targets_from(loc)[i] :
                                              i \in 1..Len(move_targets_from(loc))}}
   ELSE {})

\* legal_moves: every square of the two loops, and valid_moves_from for the
\* pieces of the side to move.
legal_moves_indexed(self) ==
  UNION {{Coordinate(col, row)} \cup
         (IF /\ self.board[col][row] # None
             /\ unwrap(self.board[col][row]).color = self.current_turn
          THEN valid_moves_from_indexed(self, Coordinate(col, row))
          ELSE {}) : col \in 0..7, row \in 0..7}

\* move_piece after legal_moves(): nothing for a move that is not in the
\* list, else the source, the jumped square and the destination.
move_piece_indexed(legal, move_desired) ==
  IF ~contains(legal, move_desired) THEN {}
  ELSE {move_desired.from, move_desired.to}
       \cup midpiece_indexed(move_desired.from[1], move_desired.from[2],
                             move_desired.to[1], move_desired.to[2])

(***************************************************************************)
(* The read-only methods of game.rs.                                       *)
(***************************************************************************)
\* Result<Option<GamePiece>, ()>
OkPiece(cell) == [ok |-> TRUE, piece |-> cell]
ErrCoord == [ok |-> FALSE]

\* Mutant of get_piece: the two indices of the board are exchanged.
get_piece_transposed(self, coord) ==
  IF coord[1] <= 7 /\ coord[2] <= 7
  THEN OkPiece(self.board[coord[2]][coord[1]])
  ELSE ErrCoord

get_piece(self, coord) ==
  IF coord[1] <= 7 /\ coord[2] <= 7
  THEN OkPiece(self.board[coord[1]][coord[2]])
  ELSE ErrCoord

GameEngine_current_turn(self) == self.current_turn

GameEngine_move_count(self) == self.move_count

\* A caller of the engine that moves on the wing and queries the engine.
MovePieceQuery ==
  /\ move_count < QueryMoves
  /\ Call(WingInputs)

GetPiece ==
  /\ \E coord \in CoordInputs :
       result' = [op |-> "get_piece", coord |-> coord, ret |-> get_piece(Self, coord)]
  /\ UNCHANGED <<board, current_turn, move_count, statics>>

CurrentTurn ==
  /\ result' = [op |-> "current_turn", ret |-> GameEngine_current_turn(Self)]
  /\ UNCHANGED <<board, current_turn, move_count, statics>>

MoveCount ==
  /\ result' = [op |-> "move_count", ret |-> GameEngine_move_count(Self)]
  /\ UNCHANGED <<board, current_turn, move_count, statics>>

NextQuery == MovePieceQuery \/ GetPiece \/ CurrentTurn \/ MoveCount

SpecQuery == Init /\ [][NextQuery]_vars

(***************************************************************************)
(* lib.rs: the functions exported to the host, called one at a time.       *)
(***************************************************************************)
\* "i as usize" of an i32: a negative i wraps to 2^w + i, w being the width
\* of usize (32 on wasm32, 64 on x86-64).  TLC integers have 32 bits, so the
\* model wraps at 2^30: for the arguments of the callers below every
\* comparison the engine makes on the result (<= 7, equality with a board
\* coordinate) has the same outcome for the three moduli.
UsizeWrap == 2^30

as_usize(i) == i % UsizeWrap

PIECEFLAG_BLACK == 1
PIECEFLAG_WHITE == 2
PIECEFLAG_CROWN == 4

\* Mutant of into_i32: the crown flag is not added.
into_i32_no_crown(piece) ==
  IF piece.color = Black THEN PIECEFLAG_BLACK
  ELSE IF piece.color = White THEN PIECEFLAG_WHITE
  ELSE 0

\* impl Into<i32> for GamePiece; val is a u8 and stays below 7.
into_i32(piece) ==
  LET val0 == 0
      val1 == IF piece.color = Black THEN val0 + PIECEFLAG_BLACK
              ELSE IF piece.color = White THEN val0 + PIECEFLAG_WHITE
              ELSE val0
      val2 == IF piece.crowned THEN val1 + PIECEFLAG_CROWN ELSE val1
  IN  val2

\* The calls of the two functions the host has to provide.
notify_piecemoved(from_x, from_y, to_x, to_y) ==
  [fn |-> "notify_piecemoved", args |-> <<from_x, from_y, to_x, to_y>>]

notify_piececrowned(x_coord, y_coord) ==
  [fn |-> "notify_piececrowned", args |-> <<x_coord, y_coord>>]

\* Mutant of lib_move_piece: the crowning is announced before the move.
lib_move_piece_crown_first(self, legal, from_x, from_y, to_x, to_y) ==
  LET move_made == Move_new(<<as_usize(from_x), as_usize(from_y)>>,
                            <<as_usize(to_x), as_usize(to_y)>>)
      res == move_piece(self, legal, move_made)
  IN  IF res.ret.ok
      THEN [self |-> res.self, ret |-> 1,
            notified |-> (IF res.ret.crowned
                          THEN <<notify_piececrowned(to_x, to_y)>>
                          ELSE <<>>)
                         \o <<notify_piecemoved(from_x, from_y, to_x, to_y)>>]
      ELSE [self |-> res.self, ret |-> 0, notified |-> <<>>]

\* The exported move_piece: the engine after the call, the i32 returned and
\* the calls of the host's functions, in the order they are made.
lib_move_piece(self, legal, from_x, from_y, to_x, to_y) ==
  LET move_made == Move_new(<<as_usize(from_x), as_usize(from_y)>>,
                            <<as_usize(to_x), as_usize(to_y)>>)
      res == move_piece(self, legal, move_made)
  IN  IF res.ret.ok
      THEN [self |-> res.self, ret |-> 1,
            notified |-> <<notify_piecemoved(from_x, from_y, to_x, to_y)>>
                         \o (IF res.ret.crowned
                             THEN <<notify_piececrowned(to_x, to_y)>>
                             ELSE <<>>)]
      ELSE [self |-> res.self, ret |-> 0, notified |-> <<>>]

\* The exported get_piece.
lib_get_piece(self, x_coord, y_coord) ==
  LET piece_from_board == get_piece(self, Coordinate(as_usize(x_coord),
                                                     as_usize(y_coord)))
  IN  IF piece_from_board.ok /\ piece_from_board.piece # None
      THEN into_i32(unwrap(piece_from_board.piece))
      ELSE -1

\* The exported get_current_turn.
lib_get_current_turn(self) == into_i32(GamePiece_new(GameEngine_current_turn(self)))

\* The i32 coordinates the host may pass: -1 and 0..MaxCoord.
I32Inputs == (-1)..MaxCoord

LibCoordInputs == I32Inputs \X I32Inputs

\* The arguments of the exported move_piece: the host plays on the columns
\* up to MaxCol.
LibMoveInputs ==
  {q \in I32Inputs \X I32Inputs \X I32Inputs \X I32Inputs :
     /\ q[1] <= MaxCol /\ q[3] <= MaxCol
     /\ Dist(q[1], q[3]) <= MaxStep /\ Dist(q[2], q[4]) <= MaxStep}

\* write() and read() return once the lock can be taken.
CanWrite == lock.writer = None /\ lock.readers = {}

\* Mutant of CanRead: read() does not wait for the writer.
CanRead_during_write == TRUE

CanRead == lock.writer = None

LibMovePiece ==
  /\ move_count < LibMoves
  /\ CanWrite
  /\ \E legal \in {legal_moves(Self)} :
       \E q \in LibMoveInputs :
         \E r \in {lib_move_piece(Self, legal, q[1], q[2], q[3], q[4])} :
           /\ board' = r.self.board
           /\ current_turn' = r.self.current_turn
           /\ move_count' = r.self.move_count
           /\ result' = [op |-> "lib_move_piece", ret |-> r.ret,
                         notified |-> r.notified]
  /\ UNCHANGED statics

LibGetPiece ==
  /\ CanRead
  /\ \E c \in LibCoordInputs :
       result' = [op |-> "lib_get_piece", ret |-> lib_get_piece(Self, c[1], c[2])]
  /\ UNCHANGED <<board, current_turn, move_count, statics>>

LibGetCurrentTurn ==
  /\ CanRead
  /\ result' = [op |-> "lib_get_current_turn", ret |-> lib_get_current_turn(Self)]
  /\ UNCHANGED <<board, current_turn, move_count, statics>>

NextLib == LibMovePiece \/ LibGetPiece \/ LibGetCurrentTurn

SpecLib == Init /\ [][NextLib]_vars

(***************************************************************************)
(* lib.rs called by several callers at once.  An exported function runs    *)
(* from taking the lock of GAME_ENGINE to its return, where the guard is   *)
(* dropped; the exported move_piece writes the engine one assignment at a  *)
(* time.  pc[t] is the position of caller t and local[t] its locals, which *)
(* end with the call.                                                      *)
(***************************************************************************)
\* The squares the concurrent callers read.
LockCoordInputs == {c \in LibCoordInputs : c[1] <= 0}

Goto(t, label, locals) ==
  /\ pc' = [pc EXCEPT ![t] = label]
  /\ local' = [local EXCEPT ![t] = locals]

\* lib.rs 33-37: the write lock is taken and move_made is built; entry is
\* the engine as the call found it.
MpEnter(t) ==
  /\ pc[t] = "idle"
  /\ move_count < LockMoves
  /\ CanWrite
  /\ lock' = [lock EXCEPT !.writer = Some(t)]
  /\ \E q \in LibMoveInputs :
       Goto(t, "mp_validate",
            [args |-> q,
             move_made |-> Move_new(<<as_usize(q[1]), as_usize(q[2])>>,
                                    <<as_usize(q[3]), as_usize(q[4])>>),
             entry |-> Self])
  /\ UNCHANGED <<board, current_turn, move_count, result>>

\* game.rs 59-67: the move is looked up in legal_moves(); a move that is not
\* there makes move_piece return Err, and the exported function 0.
MpValidate(t) ==
  /\ pc[t] = "mp_validate"
  /\ IF ~contains(legal_moves(Self), local[t].move_made)
     THEN Goto(t, "mp_return",
               [args |-> local[t].args, move_made |-> local[t].move_made,
                entry |-> local[t].entry, ret |-> 0, notified |-> <<>>])
     ELSE Goto(t, "mp_remove_jumped",
               [args |-> local[t].args, move_made |-> local[t].move_made,
                entry |-> local[t].entry,
                piece |-> unwrap(board[local[t].move_made.from[1]][local[t].move_made.from[2]])])
  /\ UNCHANGED <<board, current_turn, move_count, result, lock>>

\* game.rs 68-70
MpRemoveJumped(t) ==
  /\ pc[t] = "mp_remove_jumped"
  /\ LET m == local[t].move_made
         mc == midpiece_coordinate(m.from[1], m.from[2], m.to[1], m.to[2])
     IN  board' = IF mc # None
                  THEN [board EXCEPT ![unwrap(mc)[1]][unwrap(mc)[2]] = None]
                  ELSE board
  /\ Goto(t, "mp_place", local[t])
  /\ UNCHANGED <<current_turn, move_count, result, lock>>

\* game.rs 73
MpPlace(t) ==
  /\ pc[t] = "mp_place"
  /\ board' = [board EXCEPT ![local[t].move_made.to[1]][local[t].move_made.to[2]] =
                 Some(local[t].piece)]
  /\ Goto(t, "mp_vacate", local[t])
  /\ UNCHANGED <<current_turn, move_count, result, lock>>

\* game.rs 74
MpVacate(t) ==
  /\ pc[t] = "mp_vacate"
  /\ board' = [board EXCEPT ![local[t].move_made.from[1]][local[t].move_made.from[2]] =
                 None]
  /\ Goto(t, "mp_crown", local[t])
  /\ UNCHANGED <<current_turn, move_count, result, lock>>

\* game.rs 76-82
MpCrown(t) ==
  /\ pc[t] = "mp_crown"
  /\ \E crowned \in {should_crown(local[t].piece, local[t].move_made.to)} :
       /\ board' = IF crowned
                    THEN crown_piece(Self, local[t].move_made.to).board
                    ELSE board
       /\ Goto(t, "mp_advance_turn",
               [args |-> local[t].args, move_made |-> local[t].move_made,
                entry |-> local[t].entry, piece |-> local[t].piece,
                crowned |-> crowned])
  /\ UNCHANGED <<current_turn, move_count, result, lock>>

\* Mutant of MpAdvanceTurn: the write guard is dropped with the return of
\* the engine's move_piece, before the notifications.
MpAdvanceTurn_unlocks(t) ==
  /\ pc[t] = "mp_advance_turn"
  /\ current_turn' = advance_turn(Self).current_turn
  /\ move_count' = advance_turn(Self).move_count
  /\ Goto(t, "mp_notify_moved",
          [args |-> local[t].args, move_made |-> local[t].move_made,
           entry |-> local[t].entry, crowned |-> local[t].crowned,
           notified |-> <<>>])
  /\ lock' = [lock EXCEPT !.writer = None]
  /\ UNCHANGED <<board, result>>

\* game.rs 83-88: advance_turn, and move_piece returns Ok.
MpAdvanceTurn(t) ==
  /\ pc[t] = "mp_advance_turn"
  /\ current_turn' = advance_turn(Self).current_turn
  /\ move_count' = advance_turn(Self).move_count
  /\ Goto(t, "mp_notify_moved",
          [args |-> local[t].args, move_made |-> local[t].move_made,
           entry |-> local[t].entry, crowned |-> local[t].crowned,
           notified |-> <<>>])
  /\ UNCHANGED <<board, result, lock>>

\* lib.rs 41-43
MpNotifyMoved(t) ==
  /\ pc[t] = "mp_notify_moved"
  /\ Goto(t, "mp_notify_crowned",
          [local[t] EXCEPT !.notified =
             Append(@, notify_piecemoved(local[t].args[1], local[t].args[2],
                                         local[t].args[3], local[t].args[4]))])
  /\ UNCHANGED <<board, current_turn, move_count, result, lock>>

\* lib.rs 44-49
MpNotifyCrowned(t) ==
  /\ pc[t] = "mp_notify_crowned"
  /\ Goto(t, "mp_return",
          [args |-> local[t].args, move_made |-> local[t].move_made,
           entry |-> local[t].entry, ret |-> 1,
           notified |-> IF local[t].crowned
                        THEN Append(local[t].notified,
                                    notify_piececrowned(local[t].args[3],
                                                        local[t].args[4]))
                        ELSE local[t].notified])
  /\ UNCHANGED <<board, current_turn, move_count, result, lock>>

\* lib.rs 53: the value is returned and the write guard dropped.
MpReturn(t) ==
  /\ pc[t] = "mp_return"
  /\ lock' = [lock EXCEPT !.writer = None]
  /\ Goto(t, "idle", <<>>)
  /\ UNCHANGED <<board, current_turn, move_count, result>>

\* lib.rs 67
GpEnter(t) ==
  /\ pc[t] = "idle"
  /\ CanRead
  /\ lock' = [lock EXCEPT !.readers = @ \cup {t}]
  /\ \E c \in LockCoordInputs :
       Goto(t, "gp_read", [x_coord |-> c[1], y_coord |-> c[2]])
  /\ UNCHANGED <<board, current_turn, move_count, result>>

\* lib.rs 69-74
GpRead(t) ==
  /\ pc[t] = "gp_read"
  /\ Goto(t, "gp_return",
          [x_coord |-> local[t].x_coord, y_coord |-> local[t].y_coord,
           ret |-> lib_get_piece(Self, local[t].x_coord, local[t].y_coord)])
  /\ UNCHANGED <<board, current_turn, move_count, result, lock>>

\* lib.rs 75: the value is returned and the read guard dropped.
GpReturn(t) ==
  /\ pc[t] = "gp_return"
  /\ lock' = [lock EXCEPT !.readers = @ \ {t}]
  /\ Goto(t, "idle", <<>>)
  /\ UNCHANGED <<board, current_turn, move_count, result>>

\* lib.rs 86
GtEnter(t) ==
  /\ pc[t] = "idle"
  /\ CanRead
  /\ lock' = [lock EXCEPT !.readers = @ \cup {t}]
  /\ Goto(t, "gt_read", <<>>)
  /\ UNCHANGED <<board, current_turn, move_count, result>>

\* lib.rs 88
GtRead(t) ==
  /\ pc[t] = "gt_read"
  /\ Goto(t, "gt_return", [ret |-> lib_get_current_turn(Self)])
  /\ UNCHANGED <<board, current_turn, move_count, result, lock>>

\* lib.rs 89
GtReturn(t) ==
  /\ pc[t] = "gt_return"
  /\ lock' = [lock EXCEPT !.readers = @ \ {t}]
  /\ Goto(t, "idle", <<>>)
  /\ UNCHANGED <<board, current_turn, move_count, result>>

NextLock ==
  \E t \in Callers :
    \/ MpEnter(t) \/ MpValidate(t) \/ MpRemoveJumped(t) \/ MpPlace(t)
    \/ MpVacate(t) \/ MpCrown(t) \/ MpAdvanceTurn(t) \/ MpNotifyMoved(t)
    \/ MpNotifyCrowned(t) \/ MpReturn(t)
    \/ GpEnter(t) \/ GpRead(t) \/ GpReturn(t)
    \/ GtEnter(t) \/ GtRead(t) \/ GtReturn(t)

SpecLock == Init /\ [][NextLock]_vars

\* lib.rs 41-43 with a host whose handler of notify_piecemoved calls the
\* exported get_piece for the destination before it returns.  read() on a
\* lock that the calling thread holds for writing does not return: it
\* blocks for ever or aborts the call, and in both cases the caller goes no
\* further and the write guard is never dropped.
HandlerQuery(t) ==
  /\ pc[t] = "mp_notify_moved"
  /\ \E notified \in {Append(local[t].notified,
                               notify_piecemoved(local[t].args[1], local[t].args[2],
                                                 local[t].args[3], local[t].args[4]))} :
       IF CanRead
       THEN Goto(t, "mp_notify_crowned",
                 [args |-> local[t].args, move_made |-> local[t].move_made,
                  entry |-> local[t].entry, crowned |-> local[t].crowned,
                  notified |-> notified,
                  handler_ret |-> lib_get_piece(Self, local[t].args[3],
                                                local[t].args[4])])
       ELSE Goto(t, "mp_handler_stuck",
                 [local[t] EXCEPT !.notified = notified])
  /\ UNCHANGED <<board, current_turn, move_count, result, lock>>

NextHandler ==
  \/ NextLock
  \/ \E t \in Callers : HandlerQuery(t)

SpecHandler == Init /\ [][NextHandler]_vars

(***************************************************************************)
(* Vocabulary of the properties.                                           *)
(***************************************************************************)
Range(s) == {s[i] : i \in DOMAIN s}

OnGrid(c) == c[1] \in Index /\ c[2] \in Index

Cells == Index \X Index

At(b, c) == b[c[1]][c[2]]

OtherColor(color) == IF color = Black THEN White ELSE Black

\* The latest call was a move_piece that was applied / rejected.
Applied == result.op = "move_piece" /\ result.ok
Rejected == result.op = "move_piece" /\ ~result.ok

\* C1: an illegal move is rejected without any effect: in every reachable
\* state, move_piece called with a move outside the legal moves of the side
\* to move returns the failure value and leaves the board, current_turn and
\* move_count as they were; and the engine stays usable: in a state that a
\* rejected call left behind, every legal move is still applied.
C1_IllegalMoveRejected ==
  \A legal \in {legal_moves(Self)} :
    /\ \A m \in MoveInputs :
         m \notin Range(legal) =>
           \A r \in {move_piece(Self, legal, m)} : r.ret = Err /\ r.self = Self
    /\ Rejected => \A m \in Range(legal) : move_piece(Self, legal, m).ret.ok

\* A rejected call that followed applied moves.
C1_Witness == Rejected /\ move_count > 0

\* C2: every applied move_piece toggles current_turn and adds exactly 1 to
\* move_count, and a rejected one changes neither, so the side to move
\* alternates on successes and move_count counts the successes.
C2_TurnAlternates ==
  [][IF result'.op = "move_piece" /\ result'.ok
     THEN /\ current_turn' = OtherColor(current_turn)
          /\ move_count' = move_count + 1
     ELSE UNCHANGED <<current_turn, move_count>>]_vars

\* Two moves were applied and it is Black's turn again.
C2_Witness == Applied /\ move_count = 2 /\ current_turn = Black

\* C3: move_piece succeeds if and only if the requested move is a member of
\* legal_moves() of the side to move, and every applied move starts from an
\* on-board square that holds a piece of the colour of current_turn.
C3_SucceedsIffLegal ==
  \A legal \in {legal_moves(Self)} :
    \A m \in MoveInputs :
      \A r \in {move_piece(Self, legal, m)} :
        /\ r.ret.ok <=> m \in Range(legal)
        /\ r.ret.ok => /\ OnGrid(m.from)
                       /\ At(board, m.from) # None
                       /\ unwrap(At(board, m.from)).color = current_turn

\* White has moved one of its pieces.
C3_Witness ==
  /\ Applied
  /\ current_turn = Black
  /\ At(board, result.move_made.to) = Some(GamePiece_new(White))

WhiteStart ==
  {<<1, 0>>, <<3, 0>>, <<5, 0>>, <<7, 0>>, <<0, 1>>, <<2, 1>>, <<4, 1>>, <<6, 1>>,
   <<1, 2>>, <<3, 2>>, <<5, 2>>, <<7, 2>>}

BlackStart ==
  {<<0, 5>>, <<2, 5>>, <<4, 5>>, <<6, 5>>, <<1, 6>>, <<3, 6>>, <<5, 6>>, <<7, 6>>,
   <<0, 7>>, <<2, 7>>, <<4, 7>>, <<6, 7>>}

StartLayout(b) ==
  /\ DOMAIN b = Index
  /\ \A x \in Index : DOMAIN b[x] = Index
  /\ \A c \in Cells :
       At(b, c) = IF c \in WhiteStart THEN {[color |-> White, crowned |-> FALSE]}
                  ELSE IF c \in BlackStart THEN {[color |-> Black, crowned |-> FALSE]}
                  ELSE {}

\* C4: a newly constructed engine has exactly the 12 un-crowned White pieces
\* and the 12 un-crowned Black pieces of the starting layout, every other
\* cell empty, Black to move and move_count = 0.
C4_InitialLayout ==
  result.op = "new" =>
    /\ StartLayout(board)
    /\ Cardinality({c \in Cells : At(board, c) # None}) = 24
    /\ current_turn = Black
    /\ move_count = 0

\* The engine as constructed, before any call.
C4_Witness == result.op = "new" /\ board = GameEngine_new.board

IsStep(m) == Dist(m.from[1], m.to[1]) = 1 /\ Dist(m.from[2], m.to[2]) = 1

IsJump(m) == Dist(m.from[1], m.to[1]) = 2 /\ Dist(m.from[2], m.to[2]) = 2

\* The square between the two squares of a jump.
Mid(m) == <<(m.from[1] + m.to[1]) \div 2, (m.from[2] + m.to[2]) \div 2>>

Changed(b1, b2) == {c \in Cells : At(b1, c) # At(b2, c)}

\* C8: an applied one-step move changes exactly two cells, the source, which
\* becomes empty, and the destination, which holds the moved piece; an
\* applied two-step move (a jump) also clears the square between the two;
\* every other cell of the board is as before.
C8_MoveFrame ==
  \A legal \in {legal_moves(Self)} :
    \A m \in MoveInputs :
      \A r \in {move_piece(Self, legal, m)} :
        r.ret.ok =>
          LET piece == unwrap(At(board, m.from))
              after == r.self.board
          IN  /\ IsStep(m) \/ IsJump(m)
              /\ OnGrid(m.from) /\ OnGrid(m.to)
              /\ At(after, m.from) = None
              /\ At(after, m.to) \in {Some(piece), Some(GamePiece_crowned(piece))}
              /\ IsStep(m) => Changed(board, after) = {m.from, m.to}
              /\ IsJump(m) => /\ At(after, Mid(m)) = None
                              /\ {m.from, Mid(m)} \subseteq Changed(board, after)
                              /\ Changed(board, after) \subseteq {m.from, Mid(m), m.to}

\* A jump was applied: the square it jumped over is empty now.
C8_Witness ==
  /\ Applied
  /\ IsJump(result.move_made)
  /\ At(board, Mid(result.move_made)) = None
  /\ At(board, result.move_made.to) # None

\* The far row of a colour: row 0 for Black, row 7 for White.
FarRow(color, c) == (color = Black /\ c[2] = 0) \/ (color = White /\ c[2] = 7)

\* C9: after an applied move the piece on the destination has the mover's
\* colour and is crowned if the destination is on the mover's far row; for
\* any other destination the crowned flag of the result is false and the
\* piece has the crowned status it had before the move.
C9_CrownOnFarRow ==
  \A legal \in {legal_moves(Self)} :
    \A m \in WingInputs :
      \A r \in {move_piece(Self, legal, m)} :
        r.ret.ok =>
          LET piece == unwrap(At(board, m.from))
              dest == At(r.self.board, m.to)
          IN  /\ dest # None
              /\ unwrap(dest).color = piece.color
              /\ IF FarRow(piece.color, m.to)
                 THEN unwrap(dest).crowned
                 ELSE ~r.ret.crowned /\ unwrap(dest).crowned = piece.crowned

\* A crowned piece was moved to a square off its far row and is still crowned.
C9_Witness ==
  /\ Applied
  /\ ~result.crowned
  /\ At(board, result.move_made.to) # None
  /\ unwrap(At(board, result.move_made.to)).crowned
  /\ ~FarRow(unwrap(At(board, result.move_made.to)).color, result.move_made.to)

\* C10: the crowned flag of the result of an applied move is true exactly
\* when the moved piece was un-crowned before the move and is crowned after
\* it.
C10_FlagIffPromoted ==
  [][(result'.op = "move_piece" /\ result'.ok) =>
       (result'.crowned <=>
          /\ ~unwrap(At(board, result'.move_made.from)).crowned
          /\ unwrap(At(board', result'.move_made.to)).crowned)]_vars

Mv(fx, fy, tx, ty) == [from |-> <<fx, fy>>, to |-> <<tx, ty>>]

\* C5: from the starting layout legal_moves() is, for Black, the seven steps
\* from row 5 to row 4 in the listed order and, with only the turn advanced
\* to White, the seven steps from row 2 to row 3 in the listed order.
C5_InitialLegalMoves ==
  (result.op = "legal_moves" /\ StartLayout(board)) =>
    /\ current_turn = Black =>
         result.moves = <<Mv(0, 5, 1, 4), Mv(2, 5, 3, 4), Mv(2, 5, 1, 4), Mv(4, 5, 5, 4),
                          Mv(4, 5, 3, 4), Mv(6, 5, 7, 4), Mv(6, 5, 5, 4)>>
    /\ current_turn = White =>
         result.moves = <<Mv(1, 2, 0, 3), Mv(1, 2, 2, 3), Mv(3, 2, 2, 3), Mv(3, 2, 4, 3),
                          Mv(5, 2, 4, 3), Mv(5, 2, 6, 3), Mv(7, 2, 6, 3)>>

\* legal_moves() was called on the starting layout with White to move.
C5_Witness ==
  /\ result.op = "legal_moves"
  /\ StartLayout(board)
  /\ current_turn = White
  /\ Len(result.moves) = 7

IndexOf(s, e) == CHOOSE i \in 1..Len(s) : s[i] = e

\* The place of a move in the order of C6: the source square by column, then
\* by row, the jumps of a square before its steps, and each kind in the
\* order of its targets.
Key(m) ==
  IF IsJump(m)
  THEN <<m.from[1], m.from[2], 0, IndexOf(jump_targets_from(m.from), m.to)>>
  ELSE <<m.from[1], m.from[2], 1, IndexOf(move_targets_from(m.from), m.to)>>

KeyLess(a, b) ==
  \E i \in 1..4 : a[i] < b[i] /\ \A j \in 1..(i - 1) : a[j] = b[j]

\* The moves C6 lists for the engine self, as a set.
ListedMoves(self) ==
  UNION {
    LET piece == unwrap(At(self.board, c))
    IN  {[from |-> c, to |-> t] :
           t \in {u \in Range(jump_targets_from(c)) : valid_jump(self, piece, c, u)}}
        \cup
        {[from |-> c, to |-> t] :
           t \in {u \in Range(move_targets_from(c)) : valid_move(self, piece, c, u)}}
    : c \in {d \in Cells : /\ At(self.board, d) # None
                           /\ unwrap(At(self.board, d)).color = self.current_turn}}

ExtraWhiteBoard == [GameEngine_new.board EXCEPT ![1][4] = {[color |-> White, crowned |-> FALSE]}]

\* C6: legal_moves() is the concatenation, over the squares that hold a piece
\* of the side to move, scanned with x as the outer and y as the inner index,
\* of the square's valid jumps in jump-target order followed by its valid
\* steps in move-target order: it lists exactly those moves, each once, in
\* that order; with an extra White piece on (1,4) of the starting layout it
\* starts (0,5)->(2,3), (2,5)->(0,3), (2,5)->(3,4).
C6_LegalMovesOrder ==
  result.op = "legal_moves" =>
    /\ Range(result.moves) = ListedMoves(Self)
    /\ \A i, j \in DOMAIN result.moves :
         i < j => KeyLess(Key(result.moves[i]), Key(result.moves[j]))
    /\ (board = ExtraWhiteBoard /\ current_turn = Black) =>
         SubSeq(result.moves, 1, 3) = <<Mv(0, 5, 2, 3), Mv(2, 5, 0, 3), Mv(2, 5, 3, 4)>>

\* legal_moves() was called on the starting layout with the extra White piece.
C6_Witness ==
  /\ result.op = "legal_moves"
  /\ board = ExtraWhiteBoard
  /\ current_turn = Black
  /\ \E i \in DOMAIN result.moves : IsJump(result.moves[i])

\* The squares at the signed offsets deltas from c, in order, without those
\* that have a component below zero.
Offsets(c, deltas) ==
  SelectSeq([i \in DOMAIN deltas |-> <<c[1] + deltas[i][1], c[2] + deltas[i][2]>>],
            LAMBDA p : p[1] >= 0 /\ p[2] >= 0)

\* C7: for every coordinate of the board move_targets_from yields, in this
\* order and without the entries that have a component below zero, (x-1,y+1),
\* (x+1,y+1), (x+1,y-1), (x-1,y-1), and jump_targets_from yields (x+2,y-2),
\* (x+2,y+2), (x-2,y-2), (x-2,y+2); entries with a component above 7 stay;
\* jump_targets_from((3,3)) = [(5,1),(5,5),(1,1),(1,5)] and
\* move_targets_from((0,5)) = [(1,6),(1,4)].
C7_TargetOrder ==
  /\ (result.op = "move_targets_from" /\ OnGrid(result.coord)) =>
       /\ result.targets =
            Offsets(result.coord, <<<<-1, 1>>, <<1, 1>>, <<1, -1>>, <<-1, -1>>>>)
       /\ result.coord = <<0, 5>> => result.targets = <<<<1, 6>>, <<1, 4>>>>
  /\ (result.op = "jump_targets_from" /\ OnGrid(result.coord)) =>
       /\ result.targets =
            Offsets(result.coord, <<<<2, -2>>, <<2, 2>>, <<-2, -2>>, <<-2, 2>>>>)
       /\ result.coord = <<3, 3>> =>
            result.targets = <<<<5, 1>>, <<5, 5>>, <<1, 1>>, <<1, 5>>>>

\* jump_targets_from was called on a square next to the corner (7,7): the
\* target (8,8), off the board, is in its result.
C7_Witness ==
  /\ result.op = "jump_targets_from"
  /\ result.coord = <<6, 6>>
  /\ <<8, 8>> \in Range(result.targets)

\* C11: the exported move_piece answers a legal move with a non-zero value
\* and announces it to the host: first notify_piecemoved with the four
\* coordinates it was given, then notify_piececrowned with (to_x, to_y) if
\* and only if the engine's result has its crowned flag set.  It answers a
\* move the engine rejects with 0 and calls neither function.
C11_Notifications ==
  \A legal \in {legal_moves(Self)} :
    \A q \in LibMoveInputs :
      \A r \in {lib_move_piece(Self, legal, q[1], q[2], q[3], q[4])} :
        \A e \in {move_piece(Self, legal,
                             Move_new(<<as_usize(q[1]), as_usize(q[2])>>,
                                      <<as_usize(q[3]), as_usize(q[4])>>)).ret} :
          IF e.ok
          THEN /\ r.ret # 0
               /\ Len(r.notified) >= 1
               /\ r.notified[1] = notify_piecemoved(q[1], q[2], q[3], q[4])
               /\ IF e.crowned
                  THEN /\ Len(r.notified) = 2
                       /\ r.notified[2] = notify_piececrowned(q[3], q[4])
                  ELSE Len(r.notified) = 1
          ELSE /\ r.ret = 0
               /\ r.notified = <<>>

\* A move that crowned was announced with both notifications.
C11_Witness ==
  /\ result.op = "lib_move_piece"
  /\ result.ret = 1
  /\ Len(result.notified) = 2

\* C13: the exported get_piece returns 1 for an un-crowned Black piece, 2
\* for an un-crowned White piece, 5 for a crowned Black piece, 6 for a
\* crowned White piece and -1 for an empty square and for a coordinate off
\* the board, negative ones included; the exported get_current_turn returns
\* 1 when Black is to move and 2 when White is; no other value is returned.
C13_Encoding ==
  /\ \A c \in LibCoordInputs :
       lib_get_piece(Self, c[1], c[2]) =
         IF OnGrid(c) /\ At(board, c) # None
         THEN LET piece == unwrap(At(board, c))
              IN  IF piece.color = Black /\ ~piece.crowned THEN 1
                  ELSE IF piece.color = White /\ ~piece.crowned THEN 2
                  ELSE IF piece.color = Black /\ piece.crowned THEN 5
                  ELSE 6
         ELSE -1
  /\ lib_get_current_turn(Self) = IF current_turn = Black THEN 1 ELSE 2
  /\ result.op = "lib_get_piece" => result.ret \in {-1, 1, 2, 5, 6}
  /\ result.op = "lib_get_current_turn" => result.ret \in {1, 2}

\* A crowned White piece was read.
C13_Witness == result.op = "lib_get_piece" /\ result.ret = 6

\* The positions inside the exported move_piece, get_piece and
\* get_current_turn.
MoveLabels ==
  {"mp_validate", "mp_remove_jumped", "mp_place", "mp_vacate", "mp_crown",
   "mp_advance_turn", "mp_notify_moved", "mp_notify_crowned", "mp_return"}

ReadLabels == {"gp_read", "gp_return", "gt_read", "gt_return"}

\* The whole exported move_piece applied to the engine that call t found.
WholeMove(t) ==
  lib_move_piece(local[t].entry, legal_moves(local[t].entry),
                 local[t].args[1], local[t].args[2],
                 local[t].args[3], local[t].args[4])

\* The engine is between the state a running move_piece found and the state
\* it leaves.
PartiallyApplied ==
  \E t \in Callers :
    /\ pc[t] \in MoveLabels
    /\ Self # local[t].entry
    /\ Self # WholeMove(t).self

\* C12: with several callers, a running exported move_piece excludes every
\* other call of move_piece, get_piece and get_current_turn from taking the
\* lock until it returns, while reads only exclude the writer; a reader
\* holds the lock only while the engine is in the complete state before or
\* after a move, and the value it read is the value of that state; at its
\* return move_piece has done exactly what the call does when run alone.
C12_WriterExcludesAll ==
  /\ \A t \in Callers :
       pc[t] \in MoveLabels =>
         /\ lock.writer = Some(t)
         /\ lock.readers = {}
         /\ \A u \in Callers \ {t} : pc[u] = "idle"
  /\ \A t \in Callers :
       pc[t] \in ReadLabels =>
         /\ t \in lock.readers
         /\ lock.writer = None
         /\ ~PartiallyApplied
  /\ \A t \in Callers :
       /\ pc[t] = "gp_return" =>
            local[t].ret = lib_get_piece(Self, local[t].x_coord, local[t].y_coord)
       /\ pc[t] = "gt_return" => local[t].ret = lib_get_current_turn(Self)
       /\ pc[t] = "mp_return" =>
            \A w \in {WholeMove(t)} :
              /\ Self = w.self
              /\ local[t].ret = w.ret
              /\ local[t].notified = w.notified

\* Two reads overlap after a move was applied.
C12_Witness ==
  /\ move_count > 0
  /\ Cardinality(lock.readers) = 2
  /\ \E t \in Callers : pc[t] = "gp_return" /\ local[t].ret = 1

\* C14: get_piece(coord) returns the occupant of the square, possibly none,
\* when both components of coord are in 0..7, and the invalid-coordinate
\* error otherwise; current_turn and move_count return the two fields; none
\* of the three calls changes the board, the turn or the move count, and a
\* query repeated on the unchanged engine returns what it returned before.
C14_Queries ==
  [][/\ result'.op = "get_piece" =>
          /\ UNCHANGED <<board, current_turn, move_count>>
          /\ result'.ret = IF result'.coord[1] \in 0..7 /\ result'.coord[2] \in 0..7
                           THEN OkPiece(At(board, result'.coord))
                           ELSE ErrCoord
          /\ (result.op = "get_piece" /\ result.coord = result'.coord)
               => result'.ret = result.ret
     /\ result'.op = "current_turn" =>
          /\ UNCHANGED <<board, current_turn, move_count>>
          /\ result'.ret = current_turn
     /\ result'.op = "move_count" =>
          /\ UNCHANGED <<board, current_turn, move_count>>
          /\ result'.ret = move_count
    ]_vars

\* After a move, get_piece was refused a coordinate off the board.
C14_Witness ==
  /\ move_count > 0
  /\ result.op = "get_piece"
  /\ ~result.ret.ok

\* to lies in the forward direction of colour from the square from.
Forward(color, from, to) ==
  \/ (color = Black /\ to[2] < from[2])
  \/ (color = White /\ to[2] > from[2])

\* C15: an un-crowned piece is only ever relocated in its forward direction:
\* every applied move, simple or jump, of a piece that was un-crowned when
\* it left its square goes toward decreasing y for Black and toward
\* increasing y for White.
C15_UncrownedForward ==
  [][(result'.op = "move_piece" /\ result'.ok /\ move_count' # move_count)
       => \A piece \in At(board, result'.move_made.from) :
            ~piece.crowned
              => Forward(piece.color, result'.move_made.from, result'.move_made.to)
    ]_vars

\* The number of pieces of a colour on a board.
PieceCount(b, color) ==
  Cardinality({c \in Cells : At(b, c) # None /\ unwrap(At(b, c)).color = color})

\* C16: an applied move removes no piece of the mover's colour; a simple
\* move removes no piece at all and a jump removes exactly one piece, the
\* opposing piece on the midpoint.
C16_JumpRemovesOne ==
  [][(result'.op = "move_piece" /\ result'.ok /\ move_count' # move_count)
       => /\ PieceCount(board', current_turn) = PieceCount(board, current_turn)
          /\ IsStep(result'.move_made)
               => PieceCount(board', OtherColor(current_turn))
                    = PieceCount(board, OtherColor(current_turn))
          /\ IsJump(result'.move_made)
               => /\ PieceCount(board', OtherColor(current_turn))
                       = PieceCount(board, OtherColor(current_turn)) - 1
                  /\ At(board, Mid(result'.move_made)) # None
                  /\ unwrap(At(board, Mid(result'.move_made))).color
                       = OtherColor(current_turn)
                  /\ At(board', Mid(result'.move_made)) = None
    ]_vars

\* The squares of a board that hold a piece of a colour.
SquaresOf(b, color) ==
  {c \in Cells : At(b, c) # None /\ unwrap(At(b, c)).color = color}

\* C17 as stated: in the initial layout every Black piece has a smaller y
\* than every White piece (Black nearer row 0, White nearer row 7).
C17_BlackNearerRowZero ==
  board = GameEngine_new.board
    => \A c \in SquaresOf(board, Black) :
         \A d \in SquaresOf(board, White) : c[2] < d[2]

\* C17, amended: in the initial layout every White piece has a smaller y
\* than every Black piece (White on the rows 0..2, nearer row 0, Black on
\* the rows 5..7, nearer row 7), and the opening moves go toward each other:
\* every legal first move of Black goes toward decreasing y and every legal
\* first move of White toward increasing y.
C17_WhiteNearerRowZero ==
  /\ board = GameEngine_new.board
       => /\ \A c \in SquaresOf(board, White) :
               \A d \in SquaresOf(board, Black) : c[2] < d[2]
          /\ \A c \in SquaresOf(board, White) : c[2] \in 0..2
          /\ \A d \in SquaresOf(board, Black) : d[2] \in 5..7
  /\ move_count <= 1
       => \A legal \in {legal_moves(Self)} :
            /\ legal # <<>>
            /\ \A i \in 1..Len(legal) :
                 /\ unwrap(At(board, legal[i].from)).color = current_turn
                 /\ Forward(current_turn, legal[i].from, legal[i].to)
  /\ (move_count = 0 => current_turn = Black)
  /\ (move_count = 1 => current_turn = White)

\* Both sides made their first move, Black toward row 0 and White toward
\* row 7.
C17_Witness ==
  /\ Applied
  /\ move_count = 2
  /\ result.move_made.to[2] = result.move_made.from[2] + 1
  /\ \E c \in SquaresOf(board, Black) : c[2] = 4

\* C18: a jump is accepted whenever its two squares are on the board, the
\* source holds a piece of the side to move and the midpoint a piece of the
\* other colour, whatever the destination holds: move_piece applies it, and
\* afterwards the destination holds the moving piece and nothing else, so a
\* piece that stood there is overwritten.
C18_JumpOntoOccupied ==
  \A legal \in {legal_moves(Self)} :
    \A m \in MoveInputs :
      ( /\ IsJump(m) /\ OnGrid(m.from) /\ OnGrid(m.to)
        /\ At(board, m.from) # None
        /\ unwrap(At(board, m.from)).color = current_turn
        /\ At(board, Mid(m)) # None
        /\ unwrap(At(board, Mid(m))).color = OtherColor(current_turn) )
      => \A r \in {move_piece(Self, legal, m)} :
           /\ r.ret.ok
           /\ At(r.self.board, m.to) # None
           /\ unwrap(At(r.self.board, m.to)).color = current_turn
           /\ At(r.self.board, Mid(m)) = None
           /\ At(r.self.board, m.from) = None

\* The third move was a jump that landed on a piece: two pieces of the
\* other side are gone.
C18_Witness ==
  /\ Applied
  /\ IsJump(result.move_made)
  /\ move_count = 3
  /\ PieceCount(board, White) = 10
  /\ PieceCount(board, Black) = 12

\* m is a simple move the rules allow to the side to move: one square
\* diagonally, from one of its pieces to an empty square, forward unless the
\* piece is crowned.
ValidStep(m) ==
  /\ IsStep(m) /\ OnGrid(m.from) /\ OnGrid(m.to)
  /\ At(board, m.from) # None
  /\ unwrap(At(board, m.from)).color = current_turn
  /\ At(board, m.to) = None
  /\ \/ unwrap(At(board, m.from)).crowned
     \/ Forward(current_turn, m.from, m.to)

\* The board before the simple move m that led to board b.
BeforeStep(b, m) ==
  [b EXCEPT ![m.to[1]][m.to[2]] = None, ![m.from[1]][m.from[2]] = At(b, m.to)]

\* C19: capture is not mandatory and not chained: when the side to move has
\* a valid jump, every valid simple move is still accepted, and an applied
\* jump always passes the turn to the other side, also when the piece that
\* jumped could jump again.
C19_NoForcedCapture ==
  \A legal \in {legal_moves(Self)} :
    /\ (\E i \in 1..Len(legal) : IsJump(legal[i]))
         => \A m \in MoveInputs :
              ValidStep(m) => move_piece(Self, legal, m).ret.ok
    /\ \A i \in 1..Len(legal) :
         IsJump(legal[i])
           => \A r \in {move_piece(Self, legal, legal[i])} :
                /\ r.ret.ok
                /\ r.self.current_turn = OtherColor(current_turn)
                /\ r.self.move_count = move_count + 1

\* The third move was a simple move although the mover could have jumped.
C19_Witness ==
  /\ Applied
  /\ IsStep(result.move_made)
  /\ move_count = 3
  /\ \E j \in Range(legal_moves([board |-> BeforeStep(board, result.move_made),
                                 current_turn |-> OtherColor(current_turn),
                                 move_count |-> 2])) : IsJump(j)

\* C20: the engine has no terminal state.  In a reachable state where the
\* side to move has no legal move, legal_moves() is empty and move_piece
\* still answers every call: it rejects the move and leaves the board,
\* current_turn and move_count as they are, so the turn never passes and
\* the same holds for every later call.
C20_NoTerminalState ==
  \A legal \in {legal_moves(Self)} :
    (\A m \in MoveInputs :
       ~( /\ OnGrid(m.from) /\ OnGrid(m.to)
          /\ At(board, m.from) # None
          /\ unwrap(At(board, m.from)).color = current_turn
          /\ \/ valid_jump(Self, unwrap(At(board, m.from)), m.from, m.to)
                  /\ IsJump(m)
             \/ valid_move(Self, unwrap(At(board, m.from)), m.from, m.to)
                  /\ IsStep(m) ))
    => /\ legal = <<>>
       /\ \A m \in MoveInputs :
            \A r \in {move_piece(Self, legal, m)} :
              /\ r.ret = Err
              /\ r.self.board = board
              /\ r.self.current_turn = current_turn
              /\ r.self.move_count = move_count

\* Black, to move, has no piece left, and a call was rejected in that state.
C20_Witness ==
  /\ Rejected
  /\ legal_moves(Self) = <<>>
  /\ PieceCount(board, Black) = 0
  /\ current_turn = Black

\* C21: in every state reached from a new engine through move_piece calls,
\* current_turn is Black exactly when move_count is even and White exactly
\* when move_count is odd.
C21_TurnParity ==
  /\ current_turn = Black <=> move_count % 2 = 0
  /\ current_turn = White <=> move_count % 2 = 1

\* Fifteen moves were applied, rejected calls in between, and White is to
\* move.
C21_Witness ==
  /\ Rejected
  /\ move_count = 15
  /\ current_turn = White

\* C22: in every state reached from the initial layout through move_piece
\* calls every piece stands on a square (x, y) with x + y odd and each
\* colour has at most 12 pieces; no call increases the number of pieces of
\* a colour.
C22_DarkSquares ==
  [][board' # board
       => /\ \A c \in Cells : At(board, c) # None => (c[1] + c[2]) % 2 = 1
          /\ \A c \in Cells : At(board', c) # None => (c[1] + c[2]) % 2 = 1
          /\ \A color \in PieceColor :
               /\ PieceCount(board, color) <= 12
               /\ PieceCount(board', color) <= PieceCount(board, color)
    ]_vars

\* Pieces of both colours were taken and a piece was crowned.
C22_Witness ==
  /\ Applied
  /\ PieceCount(board, White) < 12
  /\ PieceCount(board, Black) < 12
  /\ \E c \in Cells : At(board, c) # None /\ unwrap(At(board, c)).crowned

\* C23: in every state reached from the initial layout through move_piece
\* calls, a Black piece on row 0 and a White piece on row 7 is crowned.
C23_FarRowCrowned ==
  \A c \in Cells :
    At(board, c) # None =>
      \A piece \in At(board, c) :
        FarRow(piece.color, c) => piece.crowned

\* A Black piece stands on row 0 and a White piece on row 7.
C23_Witness ==
  /\ \E c \in SquaresOf(board, Black) : c[2] = 0
  /\ \E c \in SquaresOf(board, White) : c[2] = 7
  /\ Applied

\* One of the four arguments is outside 0..7.
OffBoard(q) == \E i \in 1..4 : q[i] \notin 0..7

\* C24: whatever move is submitted, coordinates outside 0..7 included
\* (negative arguments of the exported function arrive as huge unsigned
\* values), move_piece indexes no cell outside the 8x8 board: legal_moves()
\* and the application of the move index only cells of the board.  A move
\* with a coordinate off the board is rejected, the engine is left as it
\* was, and the exported move_piece returns 0 without a notification.
C24_NoCellOffBoard ==
  /\ (\A t \in Callers : pc[t] = "idle")
       => \A legal \in {legal_moves(Self)} :
            /\ legal_moves_indexed(Self) \subseteq Cells
            /\ \A q \in LibMoveInputs :
                 /\ move_piece_indexed(legal,
                        Move_new(<<as_usize(q[1]), as_usize(q[2])>>,
                                 <<as_usize(q[3]), as_usize(q[4])>>)) \subseteq Cells
                 /\ OffBoard(q)
                      => lib_move_piece(Self, legal, q[1], q[2], q[3], q[4])
                           = [self |-> Self, ret |-> 0, notified |-> <<>>]
  /\ \A t \in Callers :
       /\ pc[t] \in {"mp_remove_jumped", "mp_place", "mp_vacate", "mp_crown"}
            => /\ OnGrid(local[t].move_made.from)
               /\ OnGrid(local[t].move_made.to)
               /\ ~OffBoard(local[t].args)
       /\ (pc[t] = "mp_return" /\ OffBoard(local[t].args))
            => /\ local[t].ret = 0
               /\ local[t].notified = <<>>
               /\ Self = local[t].entry

\* After a move, a call with a negative coordinate is about to return 0.
C24_Witness ==
  /\ move_count > 0
  /\ \E t \in Callers :
       /\ pc[t] = "mp_return"
       /\ local[t].args[1] = -1
       /\ local[t].ret = 0

\* The positions of the exported move_piece after the engine was changed.
NotifyLabels == {"mp_notify_moved", "mp_notify_crowned", "mp_handler_stuck"}

\* C25: the exported move_piece holds the write lock from before the move
\* is validated until the notifications were issued: while a caller is at
\* any position of move_piece the lock is its, between the change of the
\* engine and the notifications no get_piece or get_current_turn holds or
\* can take the lock, and a get_piece called from inside the handler of a
\* notification never obtains the read lock: it returns no value and the
\* call of move_piece stays where it is, the lock still held.
C25_LockedThroughNotify ==
  \A t \in Callers :
    /\ pc[t] \in MoveLabels \cup NotifyLabels
         => /\ lock.writer = Some(t)
            /\ "handler_ret" \notin DOMAIN local[t]
    /\ pc[t] \in NotifyLabels
         => /\ ~CanRead
            /\ lock.readers = {}
            /\ \A u \in Callers : pc[u] \notin ReadLabels
            /\ Self = WholeMove(t).self
    /\ pc[t] = "mp_handler_stuck"
         => /\ local[t].notified
                 = <<notify_piecemoved(local[t].args[1], local[t].args[2],
                                       local[t].args[3], local[t].args[4])>>
            /\ \A u \in Callers \ {t} : pc[u] = "idle"

\* The handler of notify_piecemoved called get_piece and the call of
\* move_piece is stuck with the move applied.
C25_Witness ==
  \E t \in Callers :
    /\ pc[t] = "mp_handler_stuck"
    /\ move_count = 2
====
